---- MODULE Spec2Model ----
(***************************************************************************)
(* State machine of the IDAES-UI presentation slice: AppContextProvider    *)
(* (panel collection, demo flowsheet loader), the View menu                *)
(* (HeaderFNBtnView) and the two FlowsheetWrapper layout profiles.         *)
(*                                                                         *)
(* React's useState is modelled by a committed value plus a queue of       *)
(* pending updates per hook; a render pass folds each queue over the       *)
(* committed value, re-evaluates every component body and then runs the    *)
(* effects whose dependencies changed.                                     *)
(***************************************************************************)
EXTENDS Integers, Sequences, FiniteSets, TLC

\* Largest number of View-menu clicks queued between two render passes.
MaxQueue == 2

\* JavaScript null / undefined, and the documents the GET may answer with.
Null == "null"
Undefined == "undefined"
Bodies == {"null", "docA", "docB"}

VARIABLES
    phase,           \* provider lifetime: "init", "mounted", "unmounted"
    panelState,      \* committed value of useState (panel collection)
    panelQueue,      \* updates handed to setPanelState, not yet rendered
    flowsheetState,  \* committed value of useState(null)
    flowsheetQueue,  \* values handed to setFlowsheetState, not yet rendered
    gets,            \* GET /data/demo_flowsheet.json requests issued
    inflight,        \* requests issued and not yet answered
    outcome,         \* "none", "resolved", "rejected": fate of the request
    body,            \* res.data of the answer (Null before it arrives)
    arrivedMounted,  \* was the provider mounted when the answer arrived
    errorsLogged,    \* console.error calls of the loader
    uncaught,        \* exceptions that left loadDemoFlowsheet
    menu,            \* rendered viewList of HeaderFNBtnView
    wrapperA,        \* render output of the vertical-primary FlowsheetWrapper
    wrapperB,        \* render output of the horizontal-primary FlowsheetWrapper
    prevDeps,        \* dependency array of wrapper B's effect at its last run
    driver,          \* MainFV instance created by wrapper B's effect
    created,         \* MainFV instances constructed
    cleaned,         \* cleanToolBarEvent calls
    lastBatch        \* updates the last render pass took from each queue

vars == << phase, panelState, panelQueue, flowsheetState, flowsheetQueue, gets,
           inflight, outcome, body, arrivedMounted, errorsLogged, uncaught,
           menu, wrapperA, wrapperB, prevDeps, driver, created, cleaned,
           lastBatch >>

-----------------------------------------------------------------------------
(* AppContextProvider *)

InitialPanelState ==
    << [panelName |-> "Flowsheet",    show |-> TRUE],
       [panelName |-> "Variables",    show |-> TRUE],
       [panelName |-> "Stream Table", show |-> TRUE],
       [panelName |-> "Report",       show |-> FALSE],
       [panelName |-> "Diagnostics",  show |-> TRUE] >>

\* The value passed to AppContext.Provider: it has no fv_id and no
\* server_port property, so destructuring them yields undefined.
fv_id == Undefined
server_port == Undefined

\* A state setter of a mounted component enqueues the update for the next
\* render pass; on an unmounted component React drops it.
setState(queue, update, mounted) ==
    IF mounted THEN Append(queue, update) ELSE queue

-----------------------------------------------------------------------------
(* HeaderFNBtnView *)

\* prev.map(el => el.panelName === selectedPanelName
\*                  ? {...el, show: !el.show} : el)
UpdaterFlipsAll(prev, selectedPanelName) ==
    [i \in DOMAIN prev |-> [prev[i] EXCEPT !.show = ~@]]

Updater(prev, selectedPanelName) ==
    [i \in DOMAIN prev |->
        IF prev[i].panelName = selectedPanelName
        THEN [prev[i] EXCEPT !.show = ~@]
        ELSE prev[i]]

\* The argument panelShowHandler gives to context.setPanelState: a functional
\* updater (fn), not a value computed from the rendered context.
panelShowHandlerFromSnapshot(selectedPanelName, context) ==
    [fn |-> FALSE, name |-> selectedPanelName,
     value |-> Updater(context.panelState, selectedPanelName)]

panelShowHandler(selectedPanelName, context) ==
    [fn |-> TRUE, name |-> selectedPanelName, value |-> << >>]

\* One <li> per element of context.panelState, in array order.
viewListInvertedCheck(ps) ==
    [i \in DOMAIN ps |->
        [label |-> ps[i].panelName, check |-> ~ps[i].show,
         onClick |-> ps[i].panelName]]

viewList(ps) ==
    [i \in DOMAIN ps |->
        [label |-> ps[i].panelName, check |-> ps[i].show,
         onClick |-> ps[i].panelName]]

-----------------------------------------------------------------------------
(* React state queues *)

ApplyUpdate(prev, u) == IF u.fn THEN Updater(prev, u.name) ELSE u.value

RECURSIVE ProcessQueue(_, _)
ProcessQueue(base, q) ==
    IF q = << >> THEN base
    ELSE ProcessQueue(ApplyUpdate(base, Head(q)), Tail(q))

ProcessValues(base, q) == IF q = << >> THEN base ELSE q[Len(q)]

-----------------------------------------------------------------------------
(* FlowsheetWrapper, both profiles *)

\* Own index property names of a JavaScript array.
IdxKey == << "0", "1", "2", "3", "4", "5" >>
IndexKeys(arr) == { IdxKey[i] : i \in 1..Len(arr) }
IndexOf(key) == CHOOSE i \in 1..Len(IdxKey) : IdxKey[i] = key

\* panelState.<key>.show : reading a property of undefined throws TypeError.
ReadShow(ps, key) ==
    IF key \in IndexKeys(ps)
    THEN [threw |-> FALSE, value |-> ps[IndexOf(key)].show]
    ELSE [threw |-> TRUE, value |-> FALSE]

NotRendered == [threw |-> FALSE, regions |-> {}, handles |-> 0]

\* Profile A (vertical-primary).
FlowsheetWrapperA(ps) ==
    LET isFvShow == ReadShow(ps, "fv")
        isVariablesShow == ReadShow(ps, "variables")
        isStreamTableShow == ReadShow(ps, "streamTable")
    IN  IF isFvShow.threw \/ isVariablesShow.threw \/ isStreamTableShow.threw
        THEN [threw |-> TRUE, regions |-> {}, handles |-> 0]
        ELSE [threw |-> FALSE,
              regions |-> (IF isFvShow.value THEN {"Flowsheet"} ELSE {})
                          \cup (IF isVariablesShow.value THEN {"Variables"} ELSE {})
                          \cup (IF isStreamTableShow.value THEN {"Stream Table"} ELSE {}),
              handles |-> 2]

\* Profile B (horizontal-primary).
FlowsheetWrapperB(ps) ==
    LET isFvShow == ReadShow(ps, "fv")
        isDiagnosticsShow == ReadShow(ps, "diagnostics")
        isStreamTableShow == ReadShow(ps, "streamTable")
    IN  IF isFvShow.threw \/ isDiagnosticsShow.threw \/ isStreamTableShow.threw
        THEN [threw |-> TRUE, regions |-> {}, handles |-> 0]
        ELSE [threw |-> FALSE,
              regions |-> (IF isFvShow.value THEN {"Flowsheet"} ELSE {})
                          \cup (IF isStreamTableShow.value THEN {"Stream Table"} ELSE {})
                          \cup (IF isDiagnosticsShow.value THEN {"Diagnostics"} ELSE {}),
              handles |-> 2]

\* Dependency array [isFvShow, isStreamTableShow] of wrapper B's effect.
NoDeps == [has |-> FALSE, fv |-> FALSE, st |-> FALSE]
EffectDeps(ps) ==
    [has |-> TRUE, fv |-> ReadShow(ps, "fv").value,
     st |-> ReadShow(ps, "streamTable").value]

DevPort == "5173"
FallbackPort == "8000"
NoDriver == [live |-> FALSE, id |-> Undefined, port |-> Undefined,
             fv |-> FALSE, variables |-> FALSE, st |-> FALSE]

\* new MainFV(fv_id, server_port, isFvShow, false, isStreamTableShow)
MainFV(ps) ==
    [live |-> TRUE, id |-> fv_id,
     port |-> IF server_port = DevPort THEN FallbackPort ELSE server_port,
     fv |-> ReadShow(ps, "fv").value, variables |-> FALSE,
     st |-> ReadShow(ps, "streamTable").value]

-----------------------------------------------------------------------------
(* loadDemoFlowsheet *)

\* useEffect(() => { loadDemoFlowsheet() }, []) : runs after the first
\* commit of the provider only.
ProviderEffectEveryRender(first) == TRUE

ProviderEffectFires(first) == first

\* try { const res = await axios.get(..); setFlowsheetState(res.data) }
OnFulfilledDropsBody(res) ==
    [set |-> FALSE, value |-> Null, log |-> 0, throws |-> FALSE]

OnFulfilled(res) ==
    [set |-> TRUE, value |-> res.data, log |-> 0, throws |-> FALSE]

\* catch (err) { console.error(err) }
OnRejectedStoresError(err) ==
    [set |-> TRUE, value |-> err, log |-> 1, throws |-> FALSE]

OnRejectedRethrows(err) ==
    [set |-> FALSE, value |-> Null, log |-> 1, throws |-> TRUE]

OnRejected(err) ==
    [set |-> FALSE, value |-> Null, log |-> 1, throws |-> FALSE]

-----------------------------------------------------------------------------
(* Actions *)

Init ==
    /\ phase = "init"
    /\ panelState = InitialPanelState
    /\ panelQueue = << >>
    /\ flowsheetState = Null
    /\ flowsheetQueue = << >>
    /\ gets = 0
    /\ inflight = 0
    /\ outcome = "none"
    /\ body = Null
    /\ arrivedMounted = FALSE
    /\ errorsLogged = 0
    /\ uncaught = 0
    /\ menu = << >>
    /\ wrapperA = NotRendered
    /\ wrapperB = NotRendered
    /\ prevDeps = NoDeps
    /\ driver = NoDriver
    /\ created = 0
    /\ cleaned = 0
    /\ lastBatch = [clicks |-> 0, docs |-> 0]

\* One render pass: process both state queues, evaluate the provider, the
\* View menu and both wrappers, then run the effects that are due.
RenderPass(first) ==
    LET ps == ProcessQueue(panelState, panelQueue)
        rb == FlowsheetWrapperB(ps)
        deps == EffectDeps(ps)
        fires == ~rb.threw /\ prevDeps # deps
    IN  /\ panelState' = ps
        /\ lastBatch' = [clicks |-> Len(panelQueue), docs |-> Len(flowsheetQueue)]
        /\ panelQueue' = << >>
        /\ flowsheetState' = ProcessValues(flowsheetState, flowsheetQueue)
        /\ flowsheetQueue' = << >>
        /\ menu' = viewList(ps)
        /\ wrapperA' = FlowsheetWrapperA(ps)
        /\ wrapperB' = rb
        /\ IF fires
           THEN /\ cleaned' = IF driver.live THEN cleaned + 1 ELSE cleaned
                /\ driver' = MainFV(ps)
                /\ created' = created + 1
                /\ prevDeps' = deps
           ELSE /\ cleaned' = IF rb.threw /\ driver.live THEN cleaned + 1 ELSE cleaned
                /\ driver' = IF rb.threw THEN NoDriver ELSE driver
                /\ prevDeps' = IF rb.threw THEN NoDeps ELSE prevDeps
                /\ created' = created
        /\ IF ProviderEffectFires(first)
           THEN /\ gets' = gets + 1
                /\ inflight' = inflight + 1
           ELSE UNCHANGED << gets, inflight >>
        /\ UNCHANGED << outcome, body, arrivedMounted, errorsLogged, uncaught >>

Mount ==
    /\ phase = "init"
    /\ phase' = "mounted"
    /\ RenderPass(TRUE)

ReRender ==
    /\ phase = "mounted"
    /\ panelQueue # << >> \/ flowsheetQueue # << >>
    /\ phase' = phase
    /\ RenderPass(FALSE)

\* onClick of the i-th View-menu entry.
Click(i) ==
    /\ phase = "mounted"
    /\ i \in DOMAIN menu
    /\ Len(panelQueue) < MaxQueue
    /\ panelQueue' = setState(panelQueue,
                              panelShowHandler(menu[i].onClick,
                                               [panelState |-> panelState]),
                              TRUE)
    /\ UNCHANGED << phase, panelState, flowsheetState, flowsheetQueue, gets,
                    inflight, outcome, body, arrivedMounted, errorsLogged,
                    uncaught, menu, wrapperA, wrapperB, prevDeps, driver,
                    created, cleaned, lastBatch >>

\* Continuation of loadDemoFlowsheet after the await.
Settle(k, how, b) ==
    /\ inflight' = inflight - 1
    /\ outcome' = how
    /\ body' = b
    /\ arrivedMounted' = (phase = "mounted")
    /\ flowsheetQueue' = IF k.set
                         THEN setState(flowsheetQueue, k.value, phase = "mounted")
                         ELSE flowsheetQueue
    /\ errorsLogged' = errorsLogged + k.log
    /\ uncaught' = IF k.throws THEN uncaught + 1 ELSE uncaught
    /\ UNCHANGED << phase, panelState, panelQueue, flowsheetState, gets, menu,
                    wrapperA, wrapperB, prevDeps, driver, created, cleaned,
                    lastBatch >>

\* The GET is answered with a document: the try block runs to its end.
FetchResolve(b) ==
    /\ inflight > 0
    /\ Settle(OnFulfilled([data |-> b]), "resolved", b)

\* The GET fails (axios rejects): the catch block runs.
FetchReject ==
    /\ inflight > 0
    /\ Settle(OnRejected("error"), "rejected", Null)

\* The provider (and everything below it) leaves the tree.
Unmount ==
    /\ phase = "mounted"
    /\ phase' = "unmounted"
    /\ menu' = << >>
    /\ wrapperA' = NotRendered
    /\ wrapperB' = NotRendered
    /\ cleaned' = IF driver.live THEN cleaned + 1 ELSE cleaned
    /\ driver' = NoDriver
    /\ prevDeps' = NoDeps
    /\ UNCHANGED << panelState, panelQueue, flowsheetState, flowsheetQueue,
                    gets, inflight, outcome, body, arrivedMounted,
                    errorsLogged, uncaught, created, lastBatch >>

Next ==
    \/ Mount
    \/ ReRender
    \/ \E i \in 1..Len(InitialPanelState) : Click(i)
    \/ \E b \in Bodies : FetchResolve(b)
    \/ FetchReject
    \/ Unmount

Spec == Init /\ [][Next]_vars

-----------------------------------------------------------------------------
(* Properties *)

\* The show flag of the entry named n (FALSE when there is none).
ShowOf(ps, n) == \E i \in DOMAIN ps : ps[i].panelName = n /\ ps[i].show

\* How many of the queued updates come from a click on the entry named n.
Clicks(q, n) == Cardinality({ k \in DOMAIN q : q[k].name = n })

\* C1: every click on the View-menu entry named N negates the show flag of
\* the entry whose panelName is N in the collection the provider will render
\* next, and leaves every other entry, the length and the order unchanged.
C1_ToggleFlipsOnlyClicked ==
    [][ Len(panelQueue') = Len(panelQueue) + 1 =>
          LET n == panelQueue'[Len(panelQueue')].name
              before == ProcessQueue(panelState, panelQueue)
              after == ProcessQueue(panelState', panelQueue')
          IN  /\ Len(after) = Len(before)
              /\ \A i \in DOMAIN before :
                    /\ after[i].panelName = before[i].panelName
                    /\ after[i].show =
                         (IF before[i].panelName = n
                          THEN ~before[i].show ELSE before[i].show) ]_vars

\* The spec's example: one click on "Stream Table" from the initial state.
C1_Witness ==
    /\ phase = "mounted"
    /\ panelQueue = << >>
    /\ lastBatch.clicks = 1
    /\ panelState = [InitialPanelState EXCEPT ![3].show = FALSE]

RegionsA == {"Flowsheet", "Variables", "Stream Table"}
RegionsB == {"Flowsheet", "Stream Table", "Diagnostics"}

\* C2: while the provider is mounted, each region of a layout profile is in
\* that profile's render output iff the show flag of its PanelEntry is true.
C2_RegionMountedIffShown ==
    phase = "mounted" =>
        /\ \A r \in RegionsA : (r \in wrapperA.regions) <=> ShowOf(panelState, r)
        /\ \A r \in RegionsB : (r \in wrapperB.regions) <=> ShowOf(panelState, r)

\* C3: rendering either layout profile against a reachable panel collection
\* never raises an exception.
C3_RenderNeverThrows == ~wrapperA.threw /\ ~wrapperB.threw

\* C4: while Profile B is mounted there is exactly one live MainFV instance,
\* it was built for the current configuration key, and every instance
\* created before it has had cleanToolBarEvent called.
C4_OneDriverPerConfiguration ==
    phase = "mounted" =>
        /\ driver.live
        /\ driver.id = fv_id
        /\ driver.fv = ShowOf(panelState, "Flowsheet")
        /\ driver.st = ShowOf(panelState, "Stream Table")
        /\ created = cleaned + 1

\* C5: the provider issues no GET before its first mount and exactly one
\* over the rest of its lifetime, whatever is clicked or re-rendered.
C5_ExactlyOneGet ==
    /\ phase = "init" => gets = 0
    /\ phase # "init" => gets = 1

C5_Witness ==
    /\ phase = "mounted"
    /\ gets = 1
    /\ outcome = "resolved"
    /\ flowsheetState = body
    /\ body # Null
    /\ lastBatch.clicks > 0
    /\ panelState # InitialPanelState

PendingFlowsheet == ProcessValues(flowsheetState, flowsheetQueue)

\* C7 as stated: flowsheetState is null until the response arrives and
\* equals the response body from then on.
C7_Original ==
    /\ outcome # "resolved" => PendingFlowsheet = Null
    /\ outcome = "resolved" => PendingFlowsheet = body

\* C7 as amended: flowsheetState is null until the response arrives; when the
\* provider is mounted at that moment the body is queued and then becomes
\* flowsheetState at the next render pass and stays; when the provider has
\* unmounted before the response, flowsheetState stays null.
C7_Amended ==
    /\ outcome # "resolved" =>
          (flowsheetState = Null /\ flowsheetQueue = << >>)
    /\ (outcome = "resolved" /\ arrivedMounted) =>
          \/ flowsheetState = Null /\ flowsheetQueue = << body >>
          \/ flowsheetState = body /\ flowsheetQueue = << >>
    /\ (outcome = "resolved" /\ ~arrivedMounted) =>
          (flowsheetState = Null /\ flowsheetQueue = << >>)

\* The body is rendered, then a toggle is clicked and rendered.
C7_Witness ==
    /\ phase = "mounted"
    /\ outcome = "resolved"
    /\ arrivedMounted
    /\ body = "docA"
    /\ flowsheetState = "docA"
    /\ flowsheetQueue = << >>
    /\ lastBatch = [clicks |-> 1, docs |-> 0]

\* C8: when the answer (or the failure) of the GET arrives after the provider
\* has unmounted, flowsheetState and its queue are left as they were and no
\* exception leaves the loader.
C8_NoWriteAfterUnmount ==
    [][ (phase = "unmounted" /\ inflight' < inflight) =>
          /\ flowsheetState' = flowsheetState
          /\ flowsheetQueue' = flowsheetQueue
          /\ flowsheetState' = Null
          /\ uncaught' = 0 ]_vars

C8_Witness ==
    /\ phase = "unmounted"
    /\ ~arrivedMounted
    /\ outcome = "resolved"
    /\ body = "docB"
    /\ flowsheetState = Null
    /\ flowsheetQueue = << >>
    /\ uncaught = 0

\* C9: while the menu is mounted it has one entry per PanelEntry, in
\* collection order, labelled with the panelName, with a checkmark iff the
\* entry's current show flag is true.
C9_MenuMirrorsPanels ==
    phase = "mounted" =>
        /\ Len(menu) = Len(panelState)
        /\ \A i \in DOMAIN panelState :
              /\ menu[i].label = panelState[i].panelName
              /\ menu[i].check = panelState[i].show

C9_Witness ==
    /\ phase = "mounted"
    /\ Len(menu) = 5
    /\ menu[4].label = "Report" /\ menu[4].check
    /\ menu[1].label = "Flowsheet" /\ ~menu[1].check

\* C10: a render pass that takes several queued clicks yields the collection
\* in which an entry's show flag is negated once per queued click on it,
\* so no click is lost; names, length and order stay.
C10_NoLostToggle ==
    [][ (panelQueue # << >> /\ panelQueue' = << >>) =>
          /\ Len(panelState') = Len(panelState)
          /\ \A i \in DOMAIN panelState :
                /\ panelState'[i].panelName = panelState[i].panelName
                /\ panelState'[i].show =
                     (IF Clicks(panelQueue, panelState[i].panelName) % 2 = 1
                      THEN ~panelState[i].show ELSE panelState[i].show) ]_vars

\* Two clicks and the fetch response were taken by one render pass.
C10_Witness ==
    /\ phase = "mounted"
    /\ lastBatch = [clicks |-> 2, docs |-> 1]
    /\ panelQueue = << >>
    /\ ~ShowOf(panelState, "Flowsheet")
    /\ ~ShowOf(panelState, "Diagnostics")
    /\ flowsheetState = "docA"

====
